---- MODULE Spec2Model ----
(***************************************************************************)
(* A model of src/app.py, the Quickplay Alerts dashboard: one Streamlit    *)
(* script that is run from top to bottom on every user interaction.  A     *)
(* run reads the widgets, fetches the open/close events of every selected  *)
(* account, reconciles them into the incident table                        *)
(* (st.session_state.alerts) and derives the metrics shown on the page.    *)
(*                                                                         *)
(* Times are integers in milliseconds (the unit of the API's timestamp     *)
(* column).  A formatted string is the sequence of its blank-separated     *)
(* parts, each part a number followed by a unit letter: "10m 0s" is        *)
(* <<[n |-> 10, u |-> "m"], [n |-> 0, u |-> "s"]>>.                        *)
(***************************************************************************)
EXTENDS Integers, Sequences, FiniteSets, TLC

VARIABLES
    customer_filter,      \* sidebar selectbox "Customer" (key customer_filter)
    time_filter,          \* sidebar selectbox "Time Range"
    customer_filter_main, \* main-area selectbox "Select Customer"
    time_filter_main,     \* main-area selectbox "Select Time Range"
    clicked_customer,     \* st.session_state.clicked_customer
    alerts,               \* st.session_state.alerts
    results,              \* per account, the rows the NRQL query returns
    failing,              \* accounts whose request failed in the last run
    fetched,              \* accounts whose fetch_account call returned in the last run
    raw,                  \* the merged frame `raw` of the last run
    now,                  \* `now` of the last run
    fetch_clause,         \* time_clause handed to fetch_account in the last run
    insights_label,       \* time_label handed to generate_better_insights
    metrics,              \* the dict returned by generate_better_insights
    outcome               \* where the last run of the script ended

vars == <<customer_filter, time_filter, customer_filter_main, time_filter_main,
          clicked_customer, alerts, results, failing, fetched, raw, now,
          fetch_clause, insights_label, metrics, outcome>>

-----------------------------------------------------------------------------
(* Bounds of the model *)

\* Most raw event rows the accounts hold together.
MaxRows == 2

\* Most raw event rows in the runs that exercise calculate_mttr.
MaxMttrRows == 4

-----------------------------------------------------------------------------
(* Configuration and values *)

None == "None"
NULL == "NULL"          \* a JSON null / NaN cell of a frame
ALL == "All Customers"

\* CLIENTS: the configured accounts, in the order of the secrets mapping.
ClientKeys == <<"Acme", "Globex">>

Range(s) == {s[i] : i \in DOMAIN s}

Clients == Range(ClientKeys)

CustomerOptions == {ALL} \cup Clients

TimeLabels == <<"Last 6 Hours", "Last 24 Hours", "Last 7 Days",
                "Last 1 Month", "Last 3 Months">>

time_map == ("Last 6 Hours" :> "SINCE 6 hours ago")
         @@ ("Last 24 Hours" :> "SINCE 24 hours ago")
         @@ ("Last 7 Days" :> "SINCE 7 days ago")
         @@ ("Last 1 Month" :> "SINCE 30 days ago")
         @@ ("Last 3 Months" :> "SINCE 90 days ago")

\* The strings of the model in Python's string order (code point order).
Lexicon == <<"Acme", "Globex", "cpu", "critical", "host-1", "host-2", "warning">>

StrRank(s) == CHOOSE i \in DOMAIN Lexicon : Lexicon[i] = s

-----------------------------------------------------------------------------
(* Values are bound before they are used: {e : x \in {v}} is the set that  *)
(* holds e with x bound to the value of v, and Only picks its element.     *)

Only(S) == CHOOSE x \in S : TRUE

-----------------------------------------------------------------------------
(* format_duration *)

\* int(x) of a quotient a / b, b > 0: truncation toward zero.
IntTrunc(a, b) == IF a >= 0 THEN a \div b ELSE -((-a) \div b)

Part(n, u) == [n |-> n, u |-> u]

\* A formatting that shows whole minutes only below one hour.
FormatPartsMinutesOnly(h, m, s) ==
    IF h # 0
    THEN <<Part(h, "h"), Part(m, "m")>>
    ELSE <<Part(m, "m")>>

\* The branch of format_duration for s >= 60, after the two divmod calls.
FormatParts(h, m, s) ==
    IF h # 0
    THEN <<Part(h, "h"), Part(m, "m")>>
    ELSE <<Part(m, "m"), Part(s, "s")>>

\* td is the timedelta in milliseconds; s = int(td.total_seconds()).
format_duration(td) ==
    Only({IF s < 60
          THEN <<Part(s, "s")>>
          ELSE FormatParts((s \div 60) \div 60, (s \div 60) % 60, s % 60)
          : s \in {IntTrunc(td, 1000)}})

-----------------------------------------------------------------------------
(* fetch_account and the load loop *)

\* fetch_account's frame for one account: the result rows with the Customer
\* column added and entity.name renamed to Entity.  `rows` is what the call
\* returns, from st.cache_data's store or from a fresh request; a request
\* that raises stores nothing.
fetch_account(name, rows) ==
    [i \in DOMAIN rows |->
        [timestamp     |-> rows[i].timestamp,
         conditionName |-> rows[i].conditionName,
         priority      |-> rows[i].priority,
         incidentId    |-> rows[i].incidentId,
         event         |-> rows[i].event,
         Entity        |-> rows[i].entity_name,
         Customer      |-> name]]

\* The loop over targets from position i on.  A failing request raises out of
\* fetch_account (it has no handler) and so out of the loop; an empty frame
\* is not appended.
RECURSIVE LoadLoop(_, _, _, _, _, _)
LoadLoop(targets, i, src, bad, done, all_rows) ==
    IF i > Len(targets)
    THEN [raised |-> FALSE, fetched |-> done, all_rows |-> all_rows]
    ELSE IF targets[i] \in bad
    THEN [raised |-> TRUE, fetched |-> done, all_rows |-> all_rows]
    ELSE Only({LoadLoop(targets, j, src, bad, d, a)
               : j \in {i + 1},
                 d \in {Append(done, targets[i])},
                 a \in {IF Len(src[targets[i]]) # 0
                        THEN all_rows \o fetch_account(targets[i], src[targets[i]])
                        ELSE all_rows}})

Targets(customer) == IF customer = ALL THEN ClientKeys ELSE <<customer>>

-----------------------------------------------------------------------------
(* Reconciliation: raw.groupby(...).agg(...), Status, Duration, sort_values *)

KeyOf(r) == [incidentId    |-> r.incidentId,
             Customer      |-> r.Customer,
             conditionName |-> r.conditionName,
             priority      |-> r.priority,
             Entity        |-> r.Entity]

\* groupby drops the rows that hold a null in one of the key columns
\* (dropna=True is the default).  incidentId is never null in a result row,
\* and Customer is the label fetch_account wrote.
HasNullKey(r) ==
    \/ r.conditionName = NULL
    \/ r.priority = NULL
    \/ r.Entity = NULL

Min2(a, b) == IF a <= b THEN a ELSE b
Max2(a, b) == IF a >= b THEN a ELSE b

\* An aggregation that keeps the first timestamp of a group as its start_time
\* ("first" in place of "min").
AggregateRowFirst(acc, r, k) ==
    IF HasNullKey(r)
    THEN acc
    ELSE IF k \in DOMAIN acc
    THEN [acc EXCEPT ![k] = [start_time |-> @.start_time,
                             end_time   |-> Max2(@.end_time, r.timestamp),
                             kinds      |-> @.kinds \cup {r.event}]]
    ELSE acc @@ (k :> [start_time |-> r.timestamp,
                       end_time   |-> r.timestamp,
                       kinds      |-> {r.event}])

\* What one row adds to the aggregation: acc maps each key seen so far to
\* its min and max timestamp and the event kinds seen.
AggregateRow(acc, r, k) ==
    IF HasNullKey(r)
    THEN acc
    ELSE IF k \in DOMAIN acc
    THEN [acc EXCEPT ![k] = [start_time |-> Min2(@.start_time, r.timestamp),
                             end_time   |-> Max2(@.end_time, r.timestamp),
                             kinds      |-> @.kinds \cup {r.event}]]
    ELSE acc @@ (k :> [start_time |-> r.timestamp,
                       end_time   |-> r.timestamp,
                       kinds      |-> {r.event}])

\* One pass over the rows from position i on.
RECURSIVE Aggregate(_, _, _)
Aggregate(rows, i, acc) ==
    IF i > Len(rows)
    THEN acc
    ELSE Only({Aggregate(rows, j, a)
               : j \in {i + 1}, a \in {AggregateRow(acc, rows[i], KeyOf(rows[i]))}})

\* events=("event", "nunique")
nunique(kinds) == Cardinality(kinds)

\* The order of the group keys (groupby sorts them): tuple order.
KeyLess(a, b) ==
    \/ a.incidentId < b.incidentId
    \/ /\ a.incidentId = b.incidentId
       /\ \/ StrRank(a.Customer) < StrRank(b.Customer)
          \/ /\ a.Customer = b.Customer
             /\ \/ StrRank(a.conditionName) < StrRank(b.conditionName)
                \/ /\ a.conditionName = b.conditionName
                   /\ \/ StrRank(a.priority) < StrRank(b.priority)
                      \/ /\ a.priority = b.priority
                         /\ StrRank(a.Entity) < StrRank(b.Entity)

RECURSIVE SortedKeys(_)
SortedKeys(ks) ==
    IF ks = {}
    THEN <<>>
    ELSE Only({<<k>> \o SortedKeys(rest)
               : k \in {x \in ks : \A y \in ks \ {x} : KeyLess(x, y)},
                 rest \in {{x \in ks : \E y \in ks : KeyLess(y, x)}}})

\* A Status that takes any group holding an open event for Active.
StatusAnyEvent(events) == IF events >= 1 THEN "Active" ELSE "Closed"

\* grouped["Status"]
Status(events) == IF events = 1 THEN "Active" ELSE "Closed"

\* One row of grouped after reset_index, with the Status column.
GroupRow(k, a, events) ==
    [incidentId    |-> k.incidentId,
     Customer      |-> k.Customer,
     conditionName |-> k.conditionName,
     priority      |-> k.priority,
     Entity        |-> k.Entity,
     start_time    |-> a.start_time,
     end_time      |-> a.end_time,
     events        |-> events,
     Status        |-> Status(events)]

GroupRows(acc, ks) ==
    [i \in DOMAIN ks |-> GroupRow(ks[i], acc[ks[i]], nunique(acc[ks[i]].kinds))]

Grouped(rows) ==
    Only({Only({GroupRows(acc, ks) : ks \in {SortedKeys(DOMAIN acc)}})
          : acc \in {Aggregate(rows, 1, <<>>)}})

\* A span measured against the clock for every row, Closed ones too.
SpanFromNow(r, n) == n - r.start_time

\* The time span handed to format_duration for one row of grouped.
Span(r, n) ==
    IF r.Status = "Active" THEN n - r.start_time ELSE r.end_time - r.start_time

\* grouped["Duration"]
WithDuration(g, n) ==
    [i \in DOMAIN g |->
        [incidentId    |-> g[i].incidentId,
         Customer      |-> g[i].Customer,
         conditionName |-> g[i].conditionName,
         priority      |-> g[i].priority,
         Entity        |-> g[i].Entity,
         start_time    |-> g[i].start_time,
         end_time      |-> g[i].end_time,
         events        |-> g[i].events,
         Status        |-> g[i].Status,
         Duration      |-> format_duration(Span(g[i], n))]]

\* sort_values("start_time", ascending=False): rows of equal start_time keep
\* their order.
RECURSIVE InsertDesc(_, _)
InsertDesc(sorted, r) ==
    IF sorted = <<>>
    THEN <<r>>
    ELSE IF sorted[1].start_time >= r.start_time
    THEN Only({<<sorted[1]>> \o InsertDesc(t, r) : t \in {Tail(sorted)}})
    ELSE <<r>> \o sorted

RECURSIVE SortDesc(_, _)
SortDesc(g, i) ==
    IF i = 0
    THEN <<>>
    ELSE Only({InsertDesc(s, g[i]) : s \in {SortDesc(g, i - 1)}})

sort_values(g) == SortDesc(g, Len(g))

-----------------------------------------------------------------------------
(* Metrics: calculate_mttr, get_alert_frequency, generate_better_insights *)

Text(t) == [text |-> t, parts |-> <<>>]
Formatted(parts) == [text |-> "", parts |-> parts]

\* What one part of a Duration string adds to total_minutes, in sixtieths of
\* a minute (the 's' branch adds int(part) / 60 minutes).
PartSixtieths(p) ==
    IF p.u = "d" THEN p.n * 1440 * 60
    ELSE IF p.u = "h" THEN p.n * 60 * 60
    ELSE IF p.u = "m" THEN p.n * 60
    ELSE IF p.u = "s" THEN p.n
    ELSE 0

\* total_minutes of one Duration string, in sixtieths of a minute.
RECURSIVE SumParts(_, _)
SumParts(parts, i) ==
    IF i > Len(parts) THEN 0 ELSE PartSixtieths(parts[i]) + SumParts(parts, i + 1)

\* sum(durations), in sixtieths of a minute, over the rows from i on.
RECURSIVE SumDurations(_, _)
SumDurations(closed, i) ==
    IF i > Len(closed)
    THEN 0
    ELSE SumParts(closed[i].Duration, 1) + SumDurations(closed, i + 1)

\* The average of `count` durations that sum to `total` sixtieths of a
\* minute: avg_minutes = total / (60 * count), hours = int(avg_minutes // 60),
\* minutes = int(avg_minutes % 60).
FormatAverage(total, count) ==
    Only({IF hours > 0
          THEN Formatted(<<Part(hours, "h"), Part(minutes, "m")>>)
          ELSE Formatted(<<Part(minutes, "m")>>)
          : hours \in {total \div (60 * 60 * count)},
            minutes \in {(total \div (60 * count)) % 60}})

MttrOfClosed(closed_alerts) ==
    IF Len(closed_alerts) = 0
    THEN Text("No resolved alerts yet")
    ELSE Only({FormatAverage(total, Len(closed_alerts))
               : total \in {SumDurations(closed_alerts, 1)}})

calculate_mttr(df) ==
    IF df = <<>>
    THEN Text("N/A")
    ELSE Only({MttrOfClosed(closed_alerts)
               : closed_alerts \in {SelectSeq(df, LAMBDA r : r.Status = "Closed")}})

\* f"{x:.1f}" of x = a / b, in tenths: rounded to the nearest tenth, a tie to
\* the even one.
OneDecimal(a, b) ==
    Only({IF 2 * r < b THEN q
          ELSE IF 2 * r > b THEN q + 1
          ELSE IF q % 2 = 0 THEN q ELSE q + 1
          : q \in {(10 * a) \div b}, r \in {(10 * a) % b}})

\* The window of a label: the first of the substring tests that the label
\* passes, as (divisor, unit).
Window(time_label) ==
    IF time_label = "Last 6 Hours" THEN [divisor |-> 6, unit |-> "per hour"]
    ELSE IF time_label = "Last 24 Hours" THEN [divisor |-> 24, unit |-> "per hour"]
    ELSE IF time_label = "Last 7 Days" THEN [divisor |-> 7, unit |-> "per day"]
    ELSE IF time_label = "Last 1 Month" THEN [divisor |-> 30, unit |-> "per day"]
    ELSE IF time_label = "Last 3 Months" THEN [divisor |-> 90, unit |-> "per day"]
    ELSE [divisor |-> 0, unit |-> "total"]

FrequencyIn(total_alerts, w) ==
    IF w.divisor = 0
    THEN [text |-> "", tenths |-> 10 * total_alerts, unit |-> w.unit]
    ELSE [text |-> "", tenths |-> OneDecimal(total_alerts, w.divisor), unit |-> w.unit]

get_alert_frequency(df, time_label) ==
    IF df = <<>>
    THEN [text |-> "N/A", tenths |-> 0, unit |-> ""]
    ELSE FrequencyIn(Len(df), Window(time_label))

\* The mttr and frequency entries of the dict; has_top_condition says whether
\* the dict holds the key "top_condition" (the dict of an empty frame does
\* not).  The other entries are only displayed.
generate_better_insights(df, time_label) ==
    IF df = <<>>
    THEN [mttr |-> Text("N/A"),
          frequency |-> [text |-> "N/A", tenths |-> 0, unit |-> ""],
          has_top_condition |-> FALSE]
    ELSE [mttr |-> calculate_mttr(df),
          frequency |-> get_alert_frequency(df, time_label),
          has_top_condition |-> TRUE]

NoMetrics == [mttr |-> Text(None),
              frequency |-> [text |-> None, tenths |-> 0, unit |-> ""],
              has_top_condition |-> FALSE]

-----------------------------------------------------------------------------
(* One pass of the script, top to bottom *)

\* The reconciliation of a non-empty `raw`.  `prev` is
\* st.session_state.alerts before the pass.
Reconcile(loop, g, n, prev) ==
    IF g = <<>>
    \* grouped.apply(..., axis=1) of a frame with no rows is a frame, and
    \* assigning it to the one column Duration raises ValueError.
    THEN [outcome |-> "frame_error", alerts |-> prev, raw |-> loop.all_rows,
          fetched |-> loop.fetched]
    ELSE [outcome |-> "loaded", alerts |-> sort_values(WithDuration(g, n)),
          raw |-> loop.all_rows, fetched |-> loop.fetched]

\* What follows the load loop.
AfterLoop(loop, n, prev) ==
    IF loop.raised
    THEN [outcome |-> "load_error", alerts |-> prev, raw |-> <<>>,
          fetched |-> loop.fetched]
    ELSE IF loop.all_rows = <<>>
    THEN [outcome |-> "loaded", alerts |-> <<>>, raw |-> <<>>,
          fetched |-> loop.fetched]
    ELSE Only({Reconcile(loop, g, n, prev) : g \in {Grouped(loop.all_rows)}})

\* The LOAD DATA section.
LoadData(customer, src, bad, n, prev) ==
    Only({AfterLoop(loop, n, prev)
          : loop \in {LoadLoop(Targets(customer), 1, src, bad, <<>>, <<>>)}})

CustomersOf(df) == {df[i].Customer : i \in DOMAIN df}

\* The page below the filters, for a non-empty incident table: the drill-down
\* with its Reset button, the metrics, the customer cards.
Page(base, df, df_view, m, customer_main, time_label_main, press) ==
    IF base.clicked # None /\ press = "reset"
    THEN [base EXCEPT !.clicked = None, !.rerun = TRUE]
    ELSE IF ~m.has_top_condition
    THEN [base EXCEPT !.outcome = "insights_error", !.metrics = m,
                      !.label = time_label_main]
    ELSE IF /\ base.clicked = None
            /\ customer_main = ALL
            /\ press \in CustomersOf(df)
    THEN [base EXCEPT !.clicked = press, !.rerun = TRUE]
    ELSE [base EXCEPT !.outcome = "ok", !.metrics = m, !.label = time_label_main]

DrillDown(df, clicked) ==
    IF clicked # None
    THEN SelectSeq(df, LAMBDA r : r.Customer = clicked)
    ELSE df

\* What follows the LOAD DATA section.
AfterLoad(base, customer_main, time_label_main, press) ==
    IF base.outcome # "loaded"
    THEN base
    ELSE IF base.alerts = <<>>
    THEN [base EXCEPT !.outcome = "stopped"]
    ELSE Only({Only({Page(base, base.alerts, df_view, m, customer_main,
                          time_label_main, press)
                     : m \in {generate_better_insights(df_view, time_label_main)}})
               : df_view \in {DrillDown(base.alerts, base.clicked)}})

PassStart(load, clicked1) ==
    [outcome |-> load.outcome, alerts |-> load.alerts, raw |-> load.raw,
     fetched |-> load.fetched, clicked |-> clicked1, metrics |-> NoMetrics,
     label |-> None, rerun |-> FALSE]

\* One pass.  `clicked` is st.session_state.clicked_customer at its start,
\* `press` the button whose click started the pass (None: no button).
Pass(customer, customer_main, time_label_main, clicked, prev, src, bad, n, press) ==
    Only({Only({AfterLoad(base, customer_main, time_label_main, press)
                : base \in {PassStart(load, IF customer # ALL THEN None ELSE clicked)}})
          : load \in {LoadData(customer, src, bad, n, prev)}})

\* A run of the script: one pass, and a second one when a button called
\* st.rerun().
Script(customer, time_label, customer_main, time_label_main, src, bad, n, press) ==
    \E s \in {src} :
    \E p1 \in {Pass(customer, customer_main, time_label_main,
                    clicked_customer, alerts, s, bad, n, press)} :
    \E p \in {IF p1.rerun
               THEN Pass(customer, customer_main, time_label_main,
                         p1.clicked, p1.alerts, s, bad, n, None)
               ELSE p1} :
        /\ customer_filter' = customer
        /\ time_filter' = time_label
        /\ customer_filter_main' = customer_main
        /\ time_filter_main' = time_label_main
        /\ clicked_customer' = p.clicked
        /\ alerts' = p.alerts
        /\ results' = s
        /\ failing' = bad
        /\ fetched' = p.fetched
        /\ raw' = p.raw
        /\ now' = n
        /\ fetch_clause' = time_map[time_label]
        /\ insights_label' = p.label
        /\ metrics' = p.metrics
        /\ outcome' = p.outcome

-----------------------------------------------------------------------------
(* The state before the first run of a session *)

Init ==
    /\ customer_filter = ALL
    /\ time_filter = TimeLabels[1]
    /\ customer_filter_main = ALL
    /\ time_filter_main = TimeLabels[1]
    /\ clicked_customer = None
    /\ alerts = None
    /\ results = [c \in Clients |-> <<>>]
    /\ failing = {}
    /\ fetched = <<>>
    /\ raw = <<>>
    /\ now = 0
    /\ fetch_clause = None
    /\ insights_label = None
    /\ metrics = NoMetrics
    /\ outcome = "init"

-----------------------------------------------------------------------------
(* Runs of the script.  Every action is one whole run; what the data source *)
(* returns and what the clock reads during the run are its inputs.          *)

RowCount(src) == Len(src[ClientKeys[1]]) + Len(src[ClientKeys[2]])

Swap(rows, i) ==
    [j \in DOMAIN rows |->
        IF j = i THEN rows[i + 1] ELSE IF j = i + 1 THEN rows[i] ELSE rows[j]]

\* The page is run again (the first run of a session, or a rerun with nothing
\* changed at the data source).
Refresh(n) ==
    Script(customer_filter, time_filter, customer_filter_main, time_filter_main,
           results, {}, n, None)

\* A run after the data source recorded one more open/close event for account c.
NewEvent(c, row, n, max) ==
    /\ RowCount(results) < max
    /\ Script(customer_filter, time_filter, customer_filter_main, time_filter_main,
              [results EXCEPT ![c] = Append(@, row)], {}, n, None)

\* A run in which the data source returns account c's rows in another order.
Reordered(c, i, n) ==
    /\ i \in 1 .. Len(results[c]) - 1
    /\ results[c][i] # results[c][i + 1]
    /\ Script(customer_filter, time_filter, customer_filter_main, time_filter_main,
              [results EXCEPT ![c] = Swap(@, i)], {}, n, None)

\* A run in which the request for account b fails (transport error, non-200,
\* malformed JSON or a missing nested field: each raises in fetch_account).
FetchFails(b, n) ==
    Script(customer_filter, time_filter, customer_filter_main, time_filter_main,
           results, {b}, n, None)

SidebarRendered == outcome # "init"

\* The main-area widgets are reached when the LOAD DATA section did not raise.
MainRendered == outcome \in {"stopped", "insights_error", "ok"}

SelectCustomer(c, n) ==
    /\ SidebarRendered
    /\ c # customer_filter
    /\ Script(c, time_filter, customer_filter_main, time_filter_main,
              results, {}, n, None)

SelectTime(l, n) ==
    /\ SidebarRendered
    /\ l # time_filter
    /\ Script(customer_filter, l, customer_filter_main, time_filter_main,
              results, {}, n, None)

SelectCustomerMain(c, n) ==
    /\ MainRendered
    /\ c # customer_filter_main
    /\ Script(customer_filter, time_filter, c, time_filter_main,
              results, {}, n, None)

SelectTimeMain(l, n) ==
    /\ MainRendered
    /\ l # time_filter_main
    /\ Script(customer_filter, time_filter, customer_filter_main, l,
              results, {}, n, None)

\* A click on the card button of customer c.
ClickCard(c, n) ==
    /\ outcome = "ok"
    /\ clicked_customer = None
    /\ customer_filter_main = ALL
    /\ c \in CustomersOf(alerts)
    /\ Script(customer_filter, time_filter, customer_filter_main, time_filter_main,
              results, {}, n, c)

\* A click on the Reset button of the drill-down.
ClickReset(n) ==
    /\ outcome \in {"insights_error", "ok"}
    /\ clicked_customer # None
    /\ Script(customer_filter, time_filter, customer_filter_main, time_filter_main,
              results, {}, n, "reset")

-----------------------------------------------------------------------------
(* Inputs *)

EventRows(ids, times, priorities, entities) ==
    [incidentId : ids, event : {"open", "close"}, timestamp : times,
     conditionName : {"cpu"}, priority : priorities, entity_name : entities]

\* The whole page, with a small data source.
PageRows == EventRows({1}, {100000}, {"critical"}, {"host-1"})
PageNows == {3761500}

\* The reconciliation: two incident ids, an optional priority that may be
\* absent, a clock that may read earlier than the events (skew).
ReconcileRows == EventRows({1, 2}, {100000, 700000}, {"critical", NULL}, {"host-1"})
ReconcileNows == {94500, 3761500}

\* MTTR: incidents that last 61 s, 3598 s and 3659 s.
MttrRows == EventRows({1, 2}, {0, 61000, 3659000}, {"critical"}, {"host-1"})
MttrNows == {3659000}

-----------------------------------------------------------------------------
(* Specifications *)

Next ==
    \/ \E n \in PageNows : Refresh(n)
    \/ \E c \in Clients, row \in PageRows, n \in PageNows : NewEvent(c, row, n, MaxRows)
    \/ \E c \in Clients, i \in 1 .. MaxRows, n \in PageNows : Reordered(c, i, n)
    \/ \E b \in Clients, n \in PageNows : FetchFails(b, n)
    \/ \E c \in CustomerOptions, n \in PageNows : SelectCustomer(c, n)
    \/ \E l \in Range(TimeLabels), n \in PageNows : SelectTime(l, n)
    \/ \E c \in CustomerOptions, n \in PageNows : SelectCustomerMain(c, n)
    \/ \E l \in Range(TimeLabels), n \in PageNows : SelectTimeMain(l, n)
    \/ \E c \in Clients, n \in PageNows : ClickCard(c, n)
    \/ \E n \in PageNows : ClickReset(n)

Spec == Init /\ [][Next]_vars

NextReconcile ==
    \/ \E n \in ReconcileNows : Refresh(n)
    \/ \E c \in Clients, row \in ReconcileRows, n \in ReconcileNows :
          NewEvent(c, row, n, MaxRows)
    \/ \E c \in Clients, i \in 1 .. MaxRows, n \in ReconcileNows : Reordered(c, i, n)

SpecReconcile == Init /\ [][NextReconcile]_vars

NextMttr ==
    \/ \E n \in MttrNows : Refresh(n)
    \/ \E row \in MttrRows, n \in MttrNows : NewEvent(ClientKeys[1], row, n, MaxMttrRows)

SpecMttr == Init /\ [][NextMttr]_vars

-----------------------------------------------------------------------------
(* Vocabulary of the properties *)

\* The last run got past the LOAD DATA section: alerts is the table it built
\* from raw.
LoadCompleted == outcome \in {"stopped", "insights_error", "ok"}

\* The accounts the last run was to fetch.
RunTargets == Range(Targets(customer_filter))

SameKey(a, b) ==
    /\ a.incidentId = b.incidentId
    /\ a.Customer = b.Customer
    /\ a.conditionName = b.conditionName
    /\ a.priority = b.priority
    /\ a.Entity = b.Entity

\* The positions in raw of the events of incident r's group.
EventsOf(r) == {i \in DOMAIN raw : SameKey(raw[i], r)}

KindsOf(r) == {raw[i].event : i \in EventsOf(r)}

\* The seconds a formatted duration stands for.
RECURSIVE DurationSeconds(_)
DurationSeconds(parts) ==
    IF parts = <<>>
    THEN 0
    ELSE (IF parts[1].u = "h" THEN 3600 * parts[1].n
          ELSE IF parts[1].u = "m" THEN 60 * parts[1].n
          ELSE parts[1].n)
         + DurationSeconds(Tail(parts))

\* An incident without its Duration.
Reconciled(r) ==
    [incidentId |-> r.incidentId, Customer |-> r.Customer,
     conditionName |-> r.conditionName, priority |-> r.priority,
     Entity |-> r.Entity, start_time |-> r.start_time, end_time |-> r.end_time,
     events |-> r.events, Status |-> r.Status]

IncidentSet(df) == {Reconciled(df[i]) : i \in DOMAIN df}

-----------------------------------------------------------------------------
(* C1: when the fetch of one account fails, the loop still fetches every   *)
(* other selected account and the incident table holds exactly the          *)
(* incidents of the accounts that succeeded, each under its account label.  *)

C1_FailureIsolated ==
    (outcome # "init" /\ RunTargets \cap failing # {}) =>
        /\ Range(fetched) = RunTargets \ failing
        /\ LoadCompleted
        /\ {<<alerts[i].incidentId, alerts[i].Customer>> : i \in DOMAIN alerts}
             = UNION {{<<results[c][i].incidentId, c>> : i \in DOMAIN results[c]}
                      : c \in RunTargets \ failing}

-----------------------------------------------------------------------------
(* C2: an incident is Active exactly when its group holds one distinct      *)
(* event kind, and Closed otherwise; the number of distinct kinds is 1 or   *)
(* 2 however many raw events the group has.                                 *)

C2_StatusIffOneKind ==
    LoadCompleted =>
        \A i \in DOMAIN alerts :
            /\ Cardinality(KindsOf(alerts[i])) \in {1, 2}
            /\ alerts[i].Status = "Active" <=> Cardinality(KindsOf(alerts[i])) = 1
            /\ alerts[i].Status = "Closed" <=> Cardinality(KindsOf(alerts[i])) # 1

\* An Active incident whose group holds more raw events than kinds.
C2_Witness ==
    /\ LoadCompleted
    /\ \E i \in DOMAIN alerts :
          /\ alerts[i].Status = "Active"
          /\ Cardinality(EventsOf(alerts[i])) = 2

-----------------------------------------------------------------------------
(* C3: a group whose raw events are all close events is an incident with    *)
(* status Closed, never Active; with one close event its start_time and     *)
(* end_time are that event's timestamp.                                     *)

C3_CloseOnlyIsClosed ==
    LoadCompleted =>
        \A i \in DOMAIN alerts :
            KindsOf(alerts[i]) = {"close"} =>
                /\ alerts[i].Status = "Closed"
                /\ \A j \in EventsOf(alerts[i]) :
                      Cardinality(EventsOf(alerts[i])) = 1 =>
                          /\ alerts[i].start_time = raw[j].timestamp
                          /\ alerts[i].end_time = raw[j].timestamp

-----------------------------------------------------------------------------
(* C4: a group of one open event at t and one close event at t + d is       *)
(* exactly one incident, Closed, whose Duration is the formatting of d and  *)
(* not of now - t.                                                          *)

\* Incident i's group is one open event and one later (or simultaneous)
\* close event, d milliseconds apart.
OpenThenClose(i, d) ==
    /\ Cardinality(EventsOf(alerts[i])) = 2
    /\ \E j, k \in EventsOf(alerts[i]) :
          /\ raw[j].event = "open"
          /\ raw[k].event = "close"
          /\ raw[k].timestamp = raw[j].timestamp + d

-----------------------------------------------------------------------------
(* C5: no incident carries a negative duration: when an Active incident     *)
(* starts later than `now`, the duration is clamped to zero, so no part of  *)
(* a Duration string is negative.                                           *)

C5_NoNegativeDuration ==
    LoadCompleted =>
        \A i \in DOMAIN alerts :
            \A j \in DOMAIN alerts[i].Duration : alerts[i].Duration[j].n >= 0

-----------------------------------------------------------------------------
(* C6: with at least one Closed incident, the MTTR shown is the mean of     *)
(* end_time - start_time over the Closed incidents, in whole seconds,       *)
(* truncated to whole minutes and written "{h}h {m}m" or "{m}m".            *)

\* The sum of end_time - start_time, in whole seconds, over the Closed rows
\* of df from position i on.
RECURSIVE ClosedSeconds(_, _)
ClosedSeconds(df, i) ==
    IF i > Len(df)
    THEN 0
    ELSE (IF df[i].Status = "Closed"
          THEN (df[i].end_time - df[i].start_time) \div 1000
          ELSE 0)
         + ClosedSeconds(df, i + 1)

MeanOfRaw(df) ==
    LET count   == Cardinality({i \in DOMAIN df : df[i].Status = "Closed"})
        minutes == ClosedSeconds(df, 1) \div (60 * count)
    IN  IF minutes \div 60 > 0
        THEN Formatted(<<Part(minutes \div 60, "h"), Part(minutes % 60, "m")>>)
        ELSE Formatted(<<Part(minutes, "m")>>)

C6_MttrIsMeanOfRaw ==
    (outcome = "ok" /\ \E i \in DOMAIN alerts :
                          /\ alerts[i].Status = "Closed"
                          /\ clicked_customer \in {None, alerts[i].Customer}) =>
        metrics.mttr = MeanOfRaw(DrillDown(alerts, clicked_customer))

-----------------------------------------------------------------------------
(* C7: from one run to the next over the same raw events, with a clock that *)
(* has not gone back, a Closed incident keeps its duration and an Active    *)
(* incident's duration does not decrease; the Active duration is the one    *)
(* derived from the `now` of the run that shows it.                         *)

\* The seconds the formatting of a span of s whole seconds stands for.
Shown(s) == IF s >= 3600 THEN s - (s % 60) ELSE s

C7_DurationAcrossRuns ==
    [][(LoadCompleted /\ LoadCompleted' /\ raw' = raw /\ now' >= now) =>
          \A i \in DOMAIN alerts : \A j \in DOMAIN alerts' :
              SameKey(alerts[i], alerts'[j]) =>
                  /\ alerts[i].Status = "Closed" =>
                        alerts'[j].Duration = alerts[i].Duration
                  /\ alerts[i].Status = "Active" =>
                        /\ DurationSeconds(alerts'[j].Duration)
                             >= DurationSeconds(alerts[i].Duration)
                        /\ DurationSeconds(alerts'[j].Duration)
                             = Shown(IntTrunc(now' - alerts'[j].start_time, 1000))]_vars

\* An Active incident shown with the latest clock reading, beside a Closed one
\* or alone.
C7_Witness ==
    /\ LoadCompleted
    /\ now = 3761500
    /\ \E i \in DOMAIN alerts :
          /\ alerts[i].Status = "Active"
          /\ alerts[i].Duration = <<Part(1, "h"), Part(1, "m")>>

-----------------------------------------------------------------------------
(* C8: the reconciled incidents (key, start_time, end_time, number of       *)
(* distinct kinds, Status) depend on the set of raw events only: a run over *)
(* the same rows in another order, or with exact duplicates of some rows,   *)
(* yields the same incidents, as many of them, each with the same Status.   *)

C8_SetOfEventsDecides ==
    [][(LoadCompleted /\ LoadCompleted' /\ Range(raw') = Range(raw)) =>
          /\ IncidentSet(alerts') = IncidentSet(alerts)
          /\ Len(alerts') = Len(alerts)]_vars

\* The table of a run whose raw rows hold an exact duplicate, or two distinct
\* events of one group with the later one first.
C8_Witness ==
    /\ LoadCompleted
    /\ Len(raw) = 2
    /\ \/ raw[1] = raw[2]
       \/ /\ SameKey(raw[1], raw[2])
          /\ raw[1].timestamp > raw[2].timestamp

-----------------------------------------------------------------------------
(* C9: after a run with at least one raw event the table holds exactly one  *)
(* incident for each grouping key among the raw events and none for another *)
(* key; every raw event, one without priority or entity name included,      *)
(* belongs to exactly one incident.                                         *)

C9_OneIncidentPerKey ==
    (outcome # "init" /\ failing = {} /\ raw # <<>>) =>
        /\ LoadCompleted
        /\ \A i \in DOMAIN raw :
              Cardinality({j \in DOMAIN alerts : SameKey(alerts[j], raw[i])}) = 1
        /\ \A j \in DOMAIN alerts : EventsOf(alerts[j]) # {}

-----------------------------------------------------------------------------
(* C10: the time-window label handed to generate_better_insights is the     *)
(* label of the window whose clause fetch_account queried.                  *)

C10_SameWindow ==
    outcome = "ok" => time_map[insights_label] = fetch_clause

====
